---- MODULE Spec2Model ----
(***************************************************************************)
(* A model of sqlmesh/core/model/meta.py: the construction of a ModelMeta  *)
(* record by its field validators and root validator, the derived          *)
(* partitioned_by accessor, the interval unit inferred from a cron, and    *)
(* the next/prev/floor navigator over the cached cron cursor, in single-   *)
(* threaded use and with two threads sharing one record.                   *)
(*                                                                         *)
(* Time is in whole seconds since the epoch (UTC).  A cron expression is a *)
(* string; the cron parser is modelled on a catalogue of expressions by    *)
(* the minute, hour and day-of-week sets each one denotes.                 *)
(***************************************************************************)
EXTENDS Integers, Sequences, FiniteSets, TLC

VARIABLES
    raw,      \* construction: the raw definition passed to ModelMeta(...)
    built,    \* construction: None, or the outcome (a record or an error)
    pby,      \* construction: None, or what the partitioned_by accessor returned
    ucall,    \* interval_unit: the record's cron, the sample_size and the clock
    ures,     \* interval_unit: None, or what the call returned or raised
    self,     \* navigator: the record (its cron and its cached _croniter)
    last,     \* navigator: None, or the latest query with its result
    depth,    \* navigator: how many results in a row were passed back as arguments
    conc      \* two threads on one record: the record, the cursors, the threads

vars == <<raw, built, pby, ucall, ures, self, last, depth, conc>>

\* ------------------------------------------------------------------------
\* Bounds of the model and constants of the program
\* ------------------------------------------------------------------------

\* interval_unit: min_interval >= 86400 is DAY, min_interval >= 3600 is HOUR
SecondsPerDay == 86400
SecondsPerHour == 3600
\* interval_unit's default sample_size
DefaultSampleSize == 10

\* the integers given as batch_size are -MaxInt..MaxInt
MaxInt == 2
\* the longest explicit partitioned_by list
MaxCols == 2
\* how many results in a row a caller passes back to the navigator
MaxChain == 1
\* the largest sample_size a caller of interval_unit passes
MaxSampleSize == 4
\* the sampled instants lie in the NumDays days (since the epoch) up to LastDay
LastDay == 11
NumDays == 2

FirstDay == LastDay - NumDays + 1

None == <<>>
Some(x) == <<x>>
IsNone(o) == o = <<>>
Get(o) == o[1]

Min(S) == CHOOSE x \in S : \A y \in S : x <= y
Max(S) == CHOOSE x \in S : \A y \in S : x >= y

\* ------------------------------------------------------------------------
\* The cron library, as the module uses it
\* ------------------------------------------------------------------------

AllMinutes == 0..59
AllHours == 0..23
AllDows == 0..6

CronFields(mi, ho, dw) == [ok |-> TRUE, minute |-> mi, hour |-> ho, dow |-> dw]
BadCron == [ok |-> FALSE, minute |-> {}, hour |-> {}, dow |-> {}]

\* What the cron parser makes of an expression: the minutes, hours and
\* days of the week (0 = Sunday) it fires on, or a refusal.
CronParse(expr) ==
    CASE expr = "@daily"         -> CronFields({0}, {0}, AllDows)
      [] expr = "0 0 * * *"      -> CronFields({0}, {0}, AllDows)
      [] expr = "0 * * * *"      -> CronFields({0}, AllHours, AllDows)
      [] expr = "* * * * *"      -> CronFields(AllMinutes, AllHours, AllDows)
      [] expr = "0 13 * * *"     -> CronFields({0}, {13}, AllDows)
      [] expr = "30 2 * * 1"     -> CronFields({30}, {2}, {1})
      [] expr = "*/15 * * * *"   -> CronFields({0, 15, 30, 45}, AllHours, AllDows)
      [] expr = "0 */6 * * *"    -> CronFields({0}, {0, 6, 12, 18}, AllDows)
      [] expr = "0 0,13 * * 1-5" -> CronFields({0}, {0, 13}, 1..5)
      [] expr = "0,1 0 * * *"    -> CronFields({0, 1}, {0}, AllDows)
      [] OTHER                   -> BadCron

ValidCrons ==
    {"@daily", "0 0 * * *", "0 * * * *", "* * * * *", "0 13 * * *", "30 2 * * 1",
     "*/15 * * * *", "0 */6 * * *", "0 0,13 * * 1-5", "0,1 0 * * *"}

CronValid(expr) == CronParse(expr).ok

\* 1970-01-01 was a Thursday
Dow(day) == (day + 4) % 7
DayOf(ts) == ts \div SecondsPerDay
HourOf(ts) == (ts % SecondsPerDay) \div SecondsPerHour
MinuteOf(ts) == (ts % SecondsPerHour) \div 60
At(day, ho, mi) == day * SecondsPerDay + ho * SecondsPerHour + mi * 60

\* croniter.get_next: the first firing time strictly after cur
NextFire(c, cur) ==
    LET d == DayOf(cur)
        h == HourOf(cur)
        m == MinuteOf(cur)
        today == Dow(d) \in c.dow
        laterMin == {x \in c.minute : x > m}
        laterHour == {y \in c.hour : y > h}
    IN  IF today /\ h \in c.hour /\ laterMin # {}
        THEN At(d, h, Min(laterMin))
        ELSE IF today /\ laterHour # {}
        THEN At(d, Min(laterHour), Min(c.minute))
        ELSE At(Min({e \in (d + 1)..(d + 7) : Dow(e) \in c.dow}), Min(c.hour), Min(c.minute))

\* croniter.get_prev: the last firing time strictly before cur
PrevFire(c, cur) ==
    LET d == DayOf(cur)
        h == HourOf(cur)
        m == IF cur % 60 = 0 THEN MinuteOf(cur) - 1 ELSE MinuteOf(cur)
        today == Dow(d) \in c.dow
        earlierMin == {x \in c.minute : x <= m}
        earlierHour == {y \in c.hour : y < h}
    IN  IF today /\ h \in c.hour /\ earlierMin # {}
        THEN At(d, h, Max(earlierMin))
        ELSE IF today /\ earlierHour # {}
        THEN At(d, Max(earlierHour), Max(c.minute))
        ELSE At(Max({e \in (d - 7)..(d - 1) : Dow(e) \in c.dow}), Max(c.hour), Max(c.minute))

\* A cursor object: croniter(expr) parses expr and starts at start_time.
croniter_new(expr, start) == [expr |-> expr, cur |-> start]

\* cursor.set_current(ts)
set_current(c, ts) == [c EXCEPT !.cur = ts]

\* cursor.get_next() / get_prev(): the firing time, and the cursor moved to it
get_next(c) ==
    LET r == NextFire(CronParse(c.expr), c.cur)
    IN  [cursor |-> [c EXCEPT !.cur = r], ret |-> r]

get_prev(c) ==
    LET r == PrevFire(CronParse(c.expr), c.cur)
    IN  [cursor |-> [c EXCEPT !.cur = r], ret |-> r]

\* ------------------------------------------------------------------------
\* interval_unit and normalized_cron
\* ------------------------------------------------------------------------

RECURSIVE TakeSamples(_, _)
\* [schedule.get_next() for _ in range(n)]
TakeSamples(c, n) ==
    IF n <= 0 THEN <<>>
    ELSE LET g == get_next(c) IN <<g.ret>> \o TakeSamples(g.cursor, n - 1)

\* {b - a for a, b in zip(samples, samples[1:])}
Gaps(samples) == {samples[i + 1] - samples[i] : i \in 1..(Len(samples) - 1)}

\* A faulty variant: the largest gap instead of the smallest
interval_unit_max_gap(cron, sample_size, now) ==
    IF ~CronValid(cron)
    THEN [raised |-> "CroniterBadCronError", unit |-> "", samples |-> <<>>]
    ELSE LET samples == TakeSamples(croniter_new(cron, now), sample_size)
         IN  IF Gaps(samples) = {}
             THEN [raised |-> "ValueError", unit |-> "", samples |-> samples]
             ELSE LET min_interval == Max(Gaps(samples))
                  IN  [raised |-> "",
                       unit |-> IF min_interval >= SecondsPerDay THEN "day"
                                ELSE IF min_interval >= SecondsPerHour THEN "hour"
                                ELSE "minute",
                       samples |-> samples]

\* interval_unit(sample_size), its schedule starting at the clock's now.
\* raised is "" when a unit is returned.
interval_unit(cron, sample_size, now) ==
    IF ~CronValid(cron)
    THEN [raised |-> "CroniterBadCronError", unit |-> "", samples |-> <<>>]
    ELSE LET samples == TakeSamples(croniter_new(cron, now), sample_size)
         IN  IF Gaps(samples) = {}
             THEN [raised |-> "ValueError", unit |-> "", samples |-> samples]
             ELSE LET min_interval == Min(Gaps(samples))
                  IN  [raised |-> "",
                       unit |-> IF min_interval >= SecondsPerDay THEN "day"
                                ELSE IF min_interval >= SecondsPerHour THEN "hour"
                                ELSE "minute",
                       samples |-> samples]

\* normalized_cron's mapping of what interval_unit() returned or raised
CronOfUnit(u) ==
    IF u.raised # "" THEN [raised |-> u.raised, ret |-> ""]
    ELSE [raised |-> "",
          ret |-> IF u.unit = "minute" THEN "* * * * *"
                  ELSE IF u.unit = "hour" THEN "0 * * * *"
                  ELSE IF u.unit = "day" THEN "0 0 * * *"
                  ELSE ""]

\* normalized_cron(), the clock reading now
normalized_cron(cron, now) == CronOfUnit(interval_unit(cron, DefaultSampleSize, now))

\* ------------------------------------------------------------------------
\* Model kinds (sqlmesh.core.model.kind)
\* ------------------------------------------------------------------------

TIME_RANGE == "INCREMENTAL_BY_TIME_RANGE"
UNIQUE_KEY == "INCREMENTAL_BY_UNIQUE_KEY"

\* ModelKindName, the closed enumeration of kind names
ModelKindName == {TIME_RANGE, UNIQUE_KEY, "FULL", "VIEW", "EMBEDDED"}

\* A kind object: its class, its name and (IncrementalByTimeRange) its time column
KindObj(klass, name, tc) == [klass |-> klass, name |-> name, time_column |-> tc]

\* kind.is_materialized
is_materialized(kind) == kind.name \notin {"VIEW", "EMBEDDED"}

\* The outcome of a validator or constructor: a value, or an exception of
\* class raised with a message about an offending text.
Ok(v) == [raised |-> "", msg |-> "", about |-> "", value |-> Some(v)]
Raise(cls, msg, about) == [raised |-> cls, msg |-> msg, about |-> about, value |-> None]

\* ModelKind(name=...): the name must be given and be in the enumeration
ModelKind_new(name) ==
    IF IsNone(name) THEN Raise("ValidationError", "field required", "name")
    ELSE IF Get(name) \notin ModelKindName
    THEN Raise("ValidationError", "value is not a valid enumeration member", Get(name))
    ELSE Ok(KindObj("ModelKind", Get(name), None))

\* IncrementalByTimeRange(time_column=...), IncrementalByUniqueKey(...)
IncrementalByTimeRange_new(tc) == Ok(KindObj("IncrementalByTimeRange", TIME_RANGE, tc))
IncrementalByUniqueKey_new == Ok(KindObj("IncrementalByUniqueKey", UNIQUE_KEY, None))

\* ------------------------------------------------------------------------
\* Raw values and their texts
\* ------------------------------------------------------------------------

Digit(d) ==
    CASE d = 0 -> "0" [] d = 1 -> "1" [] d = 2 -> "2" [] d = 3 -> "3" [] d = 4 -> "4"
      [] d = 5 -> "5" [] d = 6 -> "6" [] d = 7 -> "7" [] d = 8 -> "8" [] d = 9 -> "9"

RECURSIVE Str(_)
\* str(n) of an integer
Str(n) ==
    IF n < 0 THEN "-" \o Str(0 - n)
    ELSE IF n < 10 THEN Digit(n)
    ELSE Str(n \div 10) \o Digit(n % 10)

\* int(text) of a string: the integer the text is the decimal form of
IntOf(text) ==
    LET hits == {n \in (0 - MaxInt - 1)..(MaxInt + 1) : Str(n) = text}
    IN  IF hits = {} THEN Raise("ValueError", "invalid literal for int()", text)
        ELSE Ok(CHOOSE n \in hits : TRUE)

\* A raw value: shape is its Python type.  An exp.Expression has a name, a
\* str a text, an int a number, an exp.Tuple or list its elements' names.
Val(shape, name, text, n, names) ==
    [shape |-> shape, name |-> name, text |-> text, n |-> n, names |-> names]
Omitted == Val("omitted", "", "", 0, <<>>)
NoneV == Val("NoneType", "", "", 0, <<>>)
Expr(name) == Val("exp.Expression", name, "", 0, <<>>)
StrV(text) == Val("str", "", text, 0, <<>>)
IntV(n) == Val("int", "", "", n, <<>>)
TupleV(names) == Val("exp.Tuple", "", "", 0, names)
ListV(names) == Val("list", "", "", 0, names)

\* A raw kind: a kind object, a d.ModelKind node (its head name this and
\* its time_column property), a dict (its name and time_column entries), or
\* a str or exp.Expression with a name.
KindV(shape, name, tc) ==
    [shape |-> shape, name |-> name, time_column |-> tc, obj |-> KindObj("", "", None)]
KindObjV(obj) == [shape |-> "ModelKind", name |-> None, time_column |-> None, obj |-> obj]

IsExpression(v) == v.shape \in {"exp.Expression", "exp.Tuple", "d.ModelKind"}

\* ------------------------------------------------------------------------
\* ModelMeta's validators
\* ------------------------------------------------------------------------

\* @validator("partitioned_by_", pre=True)
_value_or_tuple_validator(v) ==
    IF v.shape = "exp.Tuple" THEN Ok(Some(v.names))
    ELSE IF IsExpression(v) THEN Ok(Some(<<v.name>>))
    ELSE Ok(Some(v.names))

\* @validator("kind", pre=True)
_model_kind_validator(v) ==
    IF v.shape = "ModelKind" THEN Ok(v.obj)
    ELSE IF v.shape = "d.ModelKind"
    THEN IF v.name = Some(TIME_RANGE) THEN IncrementalByTimeRange_new(v.time_column)
         ELSE IF v.name = Some(UNIQUE_KEY) THEN IncrementalByUniqueKey_new
         ELSE IF Get(v.name) \notin ModelKindName
         THEN Raise("ValueError", "is not a valid ModelKindName", Get(v.name))
         ELSE ModelKind_new(v.name)
    ELSE IF v.shape = "dict"
    THEN IF v.name = Some(TIME_RANGE) THEN IncrementalByTimeRange_new(v.time_column)
         ELSE IF v.name = Some(UNIQUE_KEY) THEN IncrementalByUniqueKey_new
         ELSE ModelKind_new(v.name)
    ELSE IF Get(v.name) \notin ModelKindName
    THEN Raise("ConfigError", "Invalid model kind", Get(v.name))
    ELSE ModelKind_new(v.name)

\* @validator("dialect", "owner", "storage_format", "description", pre=True):
\* the text of a value, None staying None
_string_validator(v) ==
    IF IsExpression(v) THEN Some(v.name)
    ELSE IF v.shape = "int" THEN Some(Str(v.n))
    ELSE IF v.shape = "NoneType" THEN None
    ELSE Some(v.text)

\* @validator("cron", pre=True)
_cron_validator(v) ==
    LET cron == _string_validator(v)
    IN  IF cron # None /\ Get(cron) # "" /\ ~CronValid(Get(cron))
        THEN Raise("ConfigError", "Invalid cron expression", Get(cron))
        ELSE Ok(cron)

\* A faulty variant: batch_size < 0 instead of <= 0
_int_validator_zero_ok(v) ==
    LET batch_size == IF ~IsExpression(v)
                      THEN (IF v.shape = "NoneType" THEN Ok(None) ELSE Ok(Some(v.n)))
                      ELSE LET i == IntOf(v.name)
                           IN  IF i.raised # "" THEN i ELSE Ok(Some(Get(i.value)))
    IN  IF batch_size.raised # "" THEN batch_size
        ELSE IF Get(batch_size.value) # None /\ Get(Get(batch_size.value)) < 0
        THEN Raise("ConfigError", "Invalid batch size", Str(Get(Get(batch_size.value))))
        ELSE batch_size

\* @validator("batch_size", pre=True)
_int_validator(v) ==
    LET batch_size == IF ~IsExpression(v)
                      THEN (IF v.shape = "NoneType" THEN Ok(None) ELSE Ok(Some(v.n)))
                      ELSE LET i == IntOf(v.name)
                           IN  IF i.raised # "" THEN i ELSE Ok(Some(Get(i.value)))
    IN  IF batch_size.raised # "" THEN batch_size
        ELSE IF Get(batch_size.value) # None /\ Get(Get(batch_size.value)) <= 0
        THEN Raise("ConfigError", "Invalid batch size", Str(Get(Get(batch_size.value))))
        ELSE batch_size

\* A faulty variant: the root validator lets every combination through
_kind_validator_unchecked(values) == Ok(values)

\* @root_validator: values holds the fields that validated
_kind_validator(values) ==
    IF /\ values.kind # None
       /\ ~is_materialized(Get(values.kind))
       /\ values.partitioned_by_ # None
       /\ Get(values.partitioned_by_) # <<>>
    THEN Raise("ValueError", "partitioned_by field cannot be set", Get(values.kind).name)
    ELSE Ok(values)

\* The defaults of the fields (kind: IncrementalByTimeRange(), cron: "@daily")
DefaultKind == KindObj("IncrementalByTimeRange", TIME_RANGE, None)
DefaultCron == "@daily"

\* A field's validation: an omitted field takes its default unvalidated.
Field(v, default, validator(_)) == IF v.shape = "omitted" THEN Ok(default) ELSE validator(v)

Errs(S) == {[msg |-> r.msg, about |-> r.about] : r \in S}

\* ModelMeta(**raw): the fields are validated in the order they are declared.
\* An exception that is no ValueError leaves the construction at once; a
\* ValueError (ValidationError is one) is collected, its field is left out of
\* values, and after the root validator has run on the fields that validated
\* the construction fails with one ValidationError holding what was collected.
Construct(r) ==
    LET k == Field(r.kind, DefaultKind, _model_kind_validator)
        c == Field(r.cron, Some(DefaultCron), _cron_validator)
        b == Field(r.batch_size, None, _int_validator)
        p == Field(r.partitioned_by, None, _value_or_tuple_validator)
        fields == <<k, c, b, p>>
        aborting == {i \in 1..4 : fields[i].raised = "ConfigError"}
        collected == {fields[i] : i \in {j \in 1..4 : fields[j].raised
                                              \in {"ValueError", "ValidationError"}}}
        val(f) == IF f.raised = "" THEN Get(f.value) ELSE None
        values == [kind |-> IF k.raised = "" THEN k.value ELSE None,
                   cron |-> val(c), batch_size |-> val(b), partitioned_by_ |-> val(p)]
        root == _kind_validator(values)
        all == collected \cup (IF root.raised = "" THEN {} ELSE {root})
    IN  IF aborting # {}
        THEN [ok |-> FALSE, raised |-> "ConfigError",
              errors |-> Errs({fields[Min(aborting)]}), meta |-> None]
        ELSE IF all # {}
        THEN [ok |-> FALSE, raised |-> "ValidationError", errors |-> Errs(all), meta |-> None]
        ELSE [ok |-> TRUE, raised |-> "", errors |-> {},
              meta |-> Some([kind |-> Get(values.kind), cron |-> Get(values.cron),
                             batch_size |-> values.batch_size,
                             partitioned_by_ |-> values.partitioned_by_])]

\* ------------------------------------------------------------------------
\* The derived accessors
\* ------------------------------------------------------------------------

RECURSIVE unique(_)
\* sqlmesh.utils.unique: the elements in order of first occurrence
unique(s) ==
    IF s = <<>> THEN <<>>
    ELSE LET init == unique(SubSeq(s, 1, Len(s) - 1))
             x == s[Len(s)]
         IN  IF \E i \in 1..Len(init) : init[i] = x THEN init ELSE Append(init, x)

\* @property time_column
time_column(meta) ==
    IF meta.kind.klass = "IncrementalByTimeRange" THEN meta.kind.time_column ELSE None

\* A faulty variant: the time column after the explicit columns
partitioned_by_time_column_last(meta) ==
    LET tc == IF time_column(meta) # None THEN <<Get(time_column(meta))>> ELSE <<>>
    IN  unique((IF meta.partitioned_by_ # None /\ Get(meta.partitioned_by_) # <<>>
                THEN Get(meta.partitioned_by_) ELSE <<>>) \o tc)

\* @property partitioned_by
partitioned_by(meta) ==
    LET tc == IF time_column(meta) # None THEN <<Get(time_column(meta))>> ELSE <<>>
    IN  unique(tc \o (IF meta.partitioned_by_ # None /\ Get(meta.partitioned_by_) # <<>>
                      THEN Get(meta.partitioned_by_) ELSE <<>>))

\* ------------------------------------------------------------------------
\* Time-like values (sqlmesh.utils.date)
\* ------------------------------------------------------------------------

\* A time-like value is a datetime (v: seconds since the epoch) or a date
\* (v: days since the epoch).
DateTime(ts) == [kind |-> "datetime", v |-> ts]
Date(day) == [kind |-> "date", v |-> day]

\* to_datetime: the instant of a time-like value (a date is its midnight)
to_datetime(value) == IF value.kind = "date" THEN value.v * SecondsPerDay ELSE value.v

\* preserve_time_like_kind: the instant ts in the representation of value
preserve_time_like_kind(value, ts) ==
    IF value.kind = "date" THEN Date(ts \div SecondsPerDay) ELSE DateTime(ts)

\* ------------------------------------------------------------------------
\* The cron navigator
\* ------------------------------------------------------------------------

\* The crons a constructed record can hold: the valid ones and, since
\* _cron_validator skips the empty string, "".
RecordCrons == ValidCrons \cup {""}

\* The instants the clock is read at, and the arguments of the navigator
Offsets == {0, 30, 60, 1800, 3600, 46800, 86399}
Instants == {d * SecondsPerDay + o : d \in FirstDay..LastDay, o \in Offsets}


\* A query's outcome: the record afterwards, and what was returned or raised
Returned(s, ret) == [raised |-> "", self |-> s, ret |-> ret]
Raised(cls, s, value) == [raised |-> cls, self |-> s, ret |-> value]

\* croniter(self.normalized_cron()) at the clock's now: n is what
\* normalized_cron() returned or raised; the parser refuses "".
NewCursor(s, n, now) ==
    IF n.raised # "" \/ ~CronValid(n.ret)
    THEN Raised("CroniterBadCronError", s, None)
    ELSE Returned(s, Some(croniter_new(n.ret, now)))

\* The cached cursor, created on first use
CachedCursor(s, now) ==
    IF s._croniter = None THEN NewCursor(s, normalized_cron(s.cron, now), now)
    ELSE Returned(s, s._croniter)

\* A faulty variant: the cursor is left where it was
SeedStep_skipped(cursor, value) == cursor

\* self._croniter.set_current(to_datetime(value))
SeedStep(cursor, value) == set_current(cursor, to_datetime(value))

\* croniter(value) on the cached cursor c: set to value when there is one
Seeded(c, value) ==
    IF c.raised # "" THEN c
    ELSE Returned(c.self, Some(SeedStep(Get(c.ret), value)))

\* A faulty variant: the cursor is seeded only when it is created
croniter_seed_once(s, value, now) ==
    IF s._croniter = None THEN Seeded(CachedCursor(s, now), value)
    ELSE CachedCursor(s, now)

\* self.croniter(value): the cached cursor, created on first use from
\* normalized_cron(), and set to value.  ret is the cursor.
croniter(s, value, now) == Seeded(CachedCursor(s, now), value)

\* preserve_time_like_kind(value, c.get_next()) on the cursor c that
\* self.croniter(...) returned, the record caching the moved cursor
ReadNext(s, value, c) ==
    IF c.raised # "" THEN Raised(c.raised, s, value)
    ELSE Returned([s EXCEPT !._croniter = Some(get_next(Get(c.ret)).cursor)],
                  preserve_time_like_kind(value, get_next(Get(c.ret)).ret))

\* preserve_time_like_kind(value, c.get_prev())
ReadPrev(s, value, c) ==
    IF c.raised # "" THEN Raised(c.raised, s, value)
    ELSE Returned([s EXCEPT !._croniter = Some(get_prev(Get(c.ret)).cursor)],
                  preserve_time_like_kind(value, get_prev(Get(c.ret)).ret))

\* cron_next(value)
cron_next(s, value, now) == ReadNext(s, value, croniter(s, value, now))

\* A faulty variant: cron_prev reads the next firing time
cron_prev_reads_next(s, value, now) == ReadNext(s, value, croniter(s, value, now))

\* cron_prev(value)
cron_prev(s, value, now) == ReadPrev(s, value, croniter(s, value, now))

WithMid(q, mid) == [raised |-> q.raised, self |-> q.self, ret |-> q.ret, mid |-> mid]

\* cron_floor's outer call: self.croniter(n).get_prev(), n being what
\* self.cron_next(value) returned or raised
FloorOf(value, now, n) ==
    IF n.raised # "" THEN WithMid(n, value)
    ELSE WithMid(ReadPrev(n.self, value, croniter(n.self, n.ret, now)), n.ret)

\* A faulty variant: cron_floor as cron_prev
cron_floor_as_prev(s, value, now) == WithMid(cron_prev(s, value, now), value)

\* cron_floor(value); mid is what its inner cron_next(value) returned
cron_floor(s, value, now) == FloorOf(value, now, cron_next(s, value, now))

\* ------------------------------------------------------------------------
\* Specification SpecBuild: a record is constructed from a raw definition
\* and its partitioned_by accessor is read
\* ------------------------------------------------------------------------

UnitIdle == [cron |-> "", sample_size |-> 0, now |-> 0]

Cols == {"ds", "a"}
ColSeqs == UNION {[1..n -> Cols] : n \in 0..MaxCols}

KindInputs ==
    {KindV("omitted", None, None)}
    \cup {KindObjV(KindObj("ModelKind", n, None)) : n \in {"VIEW", "FULL", TIME_RANGE}}
    \cup {KindObjV(KindObj("IncrementalByTimeRange", TIME_RANGE, tc)) : tc \in {None, Some("ds")}}
    \cup {KindObjV(KindObj("IncrementalByUniqueKey", UNIQUE_KEY, None))}
    \cup {KindV(sh, Some(n), None) :
            sh \in {"d.ModelKind", "dict"}, n \in ModelKindName \cup {"BOGUS"}}
    \cup {KindV(sh, Some(TIME_RANGE), Some("ds")) : sh \in {"d.ModelKind", "dict"}}
    \cup {KindV("dict", None, None)}
    \cup {KindV("str", Some(n), None) : n \in {"VIEW", "EMBEDDED", TIME_RANGE, "BOGUS"}}
    \cup {KindV("exp.Expression", Some(n), None) : n \in {"VIEW", "FULL", "BOGUS"}}

CronInputs ==
    {Omitted}
    \cup {StrV(t) : t \in {"0 13 * * *", "", "every day"}}
    \cup {Expr(t) : t \in {"*/15 * * * *", "", "61 * * * *"}}
    \cup {IntV(5)}

BatchInputs ==
    {Omitted, NoneV, Expr("x")}
    \cup {IntV(n) : n \in (0 - MaxInt)..MaxInt}
    \cup {Expr(Str(n)) : n \in (0 - MaxInt)..MaxInt}

PartitionInputs ==
    {Omitted}
    \cup {ListV(cs) : cs \in ColSeqs}
    \cup {TupleV(cs) : cs \in ColSeqs}
    \cup {Expr(c) : c \in Cols}

BuildInit ==
    /\ raw \in {Some(r) : r \in [kind : KindInputs, cron : CronInputs,
                                 batch_size : BatchInputs, partitioned_by : PartitionInputs]}
    /\ built = None /\ pby = None
    /\ ucall = UnitIdle /\ ures = None
    /\ self = None /\ last = None /\ depth = 0 /\ conc = None

\* ModelMeta(**raw)
Build ==
    /\ built = None
    /\ built' = Some(Construct(Get(raw)))
    /\ UNCHANGED <<raw, pby, ucall, ures, self, last, depth, conc>>

\* meta.partitioned_by
ReadPartitionedBy ==
    /\ built # None /\ Get(built).ok
    /\ pby = None
    /\ pby' = Some(partitioned_by(Get(Get(built).meta)))
    /\ UNCHANGED <<raw, built, ucall, ures, self, last, depth, conc>>

BuildNext == Build \/ ReadPartitionedBy

SpecBuild == BuildInit /\ [][BuildNext]_vars

\* What the raw definition asks for, read off its shapes
RawKindName(k) == IF k.shape = "ModelKind" THEN Some(k.obj.name) ELSE k.name
RawKindNonMaterialized(k) ==
    RawKindName(k) # None /\ Get(RawKindName(k)) \in {"VIEW", "EMBEDDED"}
RawKindUnrecognized(k) ==
    /\ k.shape \in {"d.ModelKind", "dict", "str", "exp.Expression"}
    /\ k.name # None
    /\ Get(k.name) \notin ModelKindName
RawPartitionNonEmpty(v) ==
    \/ v.shape \in {"exp.Tuple", "list"} /\ v.names # <<>>
    \/ v.shape = "exp.Expression"
\* The cron and batch_size of the raw definition are ones every validator accepts
RawCronFine(v) ==
    \/ v.shape = "omitted"
    \/ v.shape = "str" /\ v.text \in ValidCrons
    \/ v.shape = "exp.Expression" /\ v.name \in ValidCrons
RawBatchFine(v) ==
    \/ v.shape \in {"omitted", "NoneType"}
    \/ v.shape = "int" /\ v.n > 0
RawOthersFine == RawCronFine(Get(raw).cron) /\ RawBatchFine(Get(raw).batch_size)
IsBatchOf(v, n) ==
    \/ v.shape = "int" /\ v.n = n
    \/ v.shape = "exp.Expression" /\ v.name = Str(n)
Err(msg, about) == [msg |-> msg, about |-> about]
Outcome == Get(built)
Meta == Get(Outcome.meta)

C4_CronAlwaysValid ==
    (built # None /\ Outcome.ok) => CronValid(Meta.cron)

\* C5: a kind name outside ModelKindName fails construction with the
\* ConfigError "Invalid model kind" carrying the name, whichever shape
\* carries it (d.ModelKind node, dict, str or exp.Expression); here with a
\* cron and a batch_size that are themselves valid.
C5_UnknownKindIsConfigError ==
    (built # None /\ RawKindUnrecognized(Get(raw).kind) /\ RawOthersFine) =>
        /\ ~Outcome.ok
        /\ Outcome.raised = "ConfigError"
        /\ Outcome.errors = {Err("Invalid model kind", Get(Get(raw).kind.name))}

\* C7: a positive n given as batch_size, plain or wrapped in an expression,
\* is the batch_size of the record constructed; an n <= 0 in either form
\* fails construction with a ConfigError, the "Invalid batch size" one
\* unless the kind or cron ConfigError came first; every constructed record
\* has batch_size None or > 0.
C7_BatchSize ==
    built # None =>
        /\ Outcome.ok => (Meta.batch_size = None \/ Get(Meta.batch_size) > 0)
        /\ \A n \in (0 - MaxInt)..MaxInt :
              IsBatchOf(Get(raw).batch_size, n) =>
                 IF n > 0
                 THEN /\ Outcome.ok => Meta.batch_size = Some(n)
                      /\ \A e \in Outcome.errors :
                            e.msg \notin {"Invalid batch size", "invalid literal for int()"}
                 ELSE /\ ~Outcome.ok
                      /\ Outcome.raised = "ConfigError"
                      /\ \/ Outcome.errors = {Err("Invalid batch size", Str(n))}
                         \/ \E e \in Outcome.errors :
                               e.msg \in {"Invalid model kind", "Invalid cron expression"}

C7_Witness ==
    /\ built # None
    /\ Outcome.ok
    /\ Get(raw).batch_size = Expr("2")
    /\ Meta.batch_size = Some(2)

FirstIndex(s, x) == Min({i \in 1..Len(s) : s[i] = x})
Elems(s) == {s[i] : i \in 1..Len(s)}

\* C8: the partitioned_by accessor returns a list without duplicates, whose
\* elements are the time column (of an IncrementalByTimeRange kind that has
\* one) and the explicit columns, the time column first, the other columns
\* in the order of their first occurrence in the explicit list; time column
\* "ds" and no explicit list give <<"ds">>.
C8_PartitionedBy ==
    pby # None =>
        LET p == Get(pby)
            explicit == IF Meta.partitioned_by_ = None THEN <<>> ELSE Get(Meta.partitioned_by_)
            tc == IF Meta.kind.klass = "IncrementalByTimeRange"
                  THEN Meta.kind.time_column ELSE None
            tcs == IF tc = None THEN {} ELSE {Get(tc)}
        IN  /\ \A i, j \in 1..Len(p) : p[i] = p[j] => i = j
            /\ Elems(p) = Elems(explicit) \cup tcs
            /\ tc # None => p[1] = Get(tc)
            /\ \A i, j \in 1..Len(p) :
                  (i < j /\ p[i] \notin tcs /\ p[j] \notin tcs)
                     => FirstIndex(explicit, p[i]) < FirstIndex(explicit, p[j])
            /\ (tc = Some("ds") /\ explicit = <<>>) => p = <<"ds">>

C8_Witness ==
    /\ pby # None
    /\ Meta.kind.time_column = Some("ds")
    /\ Meta.partitioned_by_ = Some(<<"a", "ds">>)
    /\ Get(pby) = <<"ds", "a">>

\* ------------------------------------------------------------------------
\* Specification SpecUnit: interval_unit on a record with a valid cron
\* ------------------------------------------------------------------------

UnitInit ==
    /\ ucall \in [cron : ValidCrons,
                  sample_size : (0..MaxSampleSize) \cup {DefaultSampleSize},
                  now : Instants]
    /\ ures = None
    /\ raw = None /\ built = None /\ pby = None
    /\ self = None /\ last = None /\ depth = 0 /\ conc = None

\* meta.interval_unit(sample_size)
IntervalUnit ==
    /\ ures = None
    /\ ures' = Some(interval_unit(ucall.cron, ucall.sample_size, ucall.now))
    /\ UNCHANGED <<raw, built, pby, ucall, self, last, depth, conc>>

SpecUnit == UnitInit /\ [][IntervalUnit]_vars

\* Whether cron fields c fire at instant ts
Fires(c, ts) ==
    /\ ts % 60 = 0
    /\ MinuteOf(ts) \in c.minute
    /\ HourOf(ts) \in c.hour
    /\ Dow(DayOf(ts)) \in c.dow

\* samples are n consecutive firings of cron after now
ConsecutiveFirings(cron, now, samples, n) ==
    LET c == CronParse(cron)
        at(i) == IF i = 0 THEN now ELSE samples[i]
    IN  /\ Len(samples) = n
        /\ \A i \in 1..n :
              /\ Fires(c, samples[i])
              /\ at(i - 1) < samples[i]
              /\ \A k \in 1..((samples[i] - at(i - 1)) \div 60) :
                    LET ts == (at(i - 1) \div 60) * 60 + 60 * k
                    IN  ts < samples[i] => ~Fires(c, ts)

UnitOfGaps(G) ==
    IF \A g \in G : g >= 86400 THEN "day"
    ELSE IF \A g \in G : g >= 3600 THEN "hour"
    ELSE "minute"

\* C6 as stated: for every valid cron and every sample_size >= 1,
\* interval_unit returns one of DAY, HOUR, MINUTE.
C6_UnitForEverySampleSize ==
    (ures # None /\ ucall.sample_size >= 1) =>
        (Get(ures).raised = "" /\ Get(ures).unit \in {"day", "hour", "minute"})

\* C6 (amended): for every valid cron and every sample_size >= 2,
\* interval_unit returns exactly one of DAY, HOUR, MINUTE, decided by the
\* minimum gap between sample_size consecutive firings after now: DAY when
\* every gap is >= 86400 s, HOUR when every gap is >= 3600 s and one is
\* shorter than a day, MINUTE when a gap is shorter than an hour; once a day
\* at 13:00 is DAY and every 15 minutes is MINUTE.  With sample_size 1 there
\* is no gap, and the call raises ValueError.
C6_IntervalUnit ==
    ures # None =>
        LET r == Get(ures)
            G == {r.samples[i] - r.samples[i - 1] : i \in 2..Len(r.samples)}
        IN  /\ ucall.sample_size >= 2 =>
                /\ r.raised = ""
                /\ ConsecutiveFirings(ucall.cron, ucall.now, r.samples, ucall.sample_size)
                /\ r.unit = UnitOfGaps(G)
                /\ ucall.cron = "0 13 * * *" => r.unit = "day"
                /\ ucall.cron = "*/15 * * * *" => r.unit = "minute"
            /\ ucall.sample_size = 1 => r.raised = "ValueError"

C6_Witness ==
    /\ ures # None
    /\ ucall.sample_size >= 2
    /\ ucall.cron = "0 0,13 * * 1-5"
    /\ Get(ures).unit = "hour"


\* ------------------------------------------------------------------------
\* Specification SpecNav: one caller queries the navigator of a record
\* ------------------------------------------------------------------------

NavArgs == {DateTime(ts) : ts \in Instants} \cup {Date(d) : d \in FirstDay..LastDay}

\* A caller passes a sampled value, or the result of its latest query
\* (at most MaxChain results in a row).
ArgChoices ==
    [value : NavArgs, chained : {FALSE}]
    \cup (IF last # None /\ Get(last).raised = "" /\ depth < MaxChain
          THEN {[value |-> Get(last).ret, chained |-> TRUE]} ELSE {})

\* The clock when the query runs: it is read only when the cursor is created
Clock == IF Get(self)._croniter = None THEN Instants ELSE {Min(Instants)}

NavInit ==
    /\ self \in {Some([cron |-> c, _croniter |-> None]) : c \in RecordCrons}
    /\ last = None
    /\ depth = 0
    /\ raw = None /\ built = None /\ pby = None
    /\ ucall = UnitIdle /\ ures = None
    /\ conc = None

\* The record of a query: its result, and the query before when that
\* query's result was the argument.
Query(op, a, q) ==
    /\ self' = Some(q.self)
    /\ last' = Some([op |-> op, arg |-> a.value, raised |-> q.raised, ret |-> q.ret,
                     mid |-> IF op = "floor" THEN q.mid ELSE a.value,
                     from |-> IF a.chained
                              THEN Some([op |-> Get(last).op, arg |-> Get(last).arg])
                              ELSE None])
    /\ depth' = IF a.chained THEN depth + 1 ELSE 0
    /\ UNCHANGED <<raw, built, pby, ucall, ures, conc>>

\* meta.cron_next(value)
CronNext ==
    \E a \in ArgChoices, now \in Clock : Query("next", a, cron_next(Get(self), a.value, now))

\* meta.cron_prev(value)
CronPrev ==
    \E a \in ArgChoices, now \in Clock : Query("prev", a, cron_prev(Get(self), a.value, now))

\* meta.cron_floor(value)
CronFloor ==
    \E a \in ArgChoices, now \in Clock : Query("floor", a, cron_floor(Get(self), a.value, now))

NavNext == CronNext \/ CronPrev \/ CronFloor

SpecNav == NavInit /\ [][NavNext]_vars

\* The period, in seconds, of each normalized cron
Period(expr) ==
    CASE expr = "* * * * *" -> 60
      [] expr = "0 * * * *" -> 3600
      [] expr = "0 0 * * *" -> 86400

Answered == last # None /\ Get(last).raised = ""
Cadence == Period(Get(Get(self)._croniter).expr)
OnBoundary(ts) == ts % Cadence = 0

\* What a query returns or raises on a record of the same cron that was
\* never queried before, its clock read at then
OnFresh(op, value, then) ==
    LET fresh == [cron |-> Get(self).cron, _croniter |-> None]
    IN  CASE op = "next" -> cron_next(fresh, value, then)
          [] op = "prev" -> cron_prev(fresh, value, then)
          [] op = "floor" -> cron_floor(fresh, value, then)

\* C2: for every timestamp t and each normalized cadence, cron_floor(t) is
\* the latest firing time <= t: a firing time r with r <= t and no firing
\* time in (r, t]; it is t when t is a firing time and is before t
\* otherwise; and t < cron_next(t), the firing time that follows r.
C2_Floor ==
    (Answered /\ Get(last).op = "floor" /\ Get(last).arg.kind = "datetime") =>
        LET t == Get(last).arg.v
            r == Get(last).ret.v
            n == Get(last).mid.v
        IN  /\ Get(last).ret.kind = "datetime"
            /\ OnBoundary(r)
            /\ r <= t /\ t < n
            /\ n = r + Cadence
            /\ OnBoundary(t) => r = t
            /\ ~OnBoundary(t) => r < t

C2_Witness ==
    /\ Answered
    /\ Get(last).op = "floor"
    /\ depth = 0
    /\ Get(last).arg = DateTime(LastDay * 86400 + 3600)
    /\ Get(last).ret = Get(last).arg
    /\ Cadence = 3600
    /\ Get(self).cron = "0 */6 * * *"

\* C3: what cron_next, cron_prev and cron_floor return (or raise) for an
\* argument is what they return for it on a record never queried before,
\* whatever was asked of this record earlier and whenever its cursor was
\* created.
C3_OnlyTheArgument ==
    last # None =>
        \A then \in Instants :
            /\ OnFresh(Get(last).op, Get(last).arg, then).raised = Get(last).raised
            /\ OnFresh(Get(last).op, Get(last).arg, then).ret = Get(last).ret

C3_Witness ==
    /\ Answered
    /\ Get(last).from # None
    /\ Get(Get(last).from).op = "floor"
    /\ Get(last).op = "next"
    /\ Get(last).ret.v > Get(last).arg.v

\* C9: for a timestamp t on a firing boundary of the normalized cron,
\* cron_prev(t) is a firing time strictly before t, and cron_prev of what
\* cron_next(t) returned is t, whatever was asked of the record earlier.
C9_PrevOfNext ==
    (Answered /\ Get(last).op = "prev" /\ Get(last).arg.kind = "datetime") =>
        /\ OnBoundary(Get(last).arg.v) =>
              /\ Get(last).ret.v < Get(last).arg.v
              /\ Get(last).ret.v = Get(last).arg.v - Cadence
        /\ (/\ Get(last).from # None
            /\ Get(Get(last).from).op = "next"
            /\ OnBoundary(Get(Get(last).from).arg.v))
              => Get(last).ret = Get(Get(last).from).arg

C9_Witness ==
    /\ Answered
    /\ Get(last).op = "prev"
    /\ Get(last).from # None
    /\ Get(Get(last).from).op = "next"
    /\ Get(Get(last).from).arg = DateTime(LastDay * 86400)
    /\ Get(last).ret = DateTime(LastDay * 86400)
    /\ Cadence = 86400

\* ------------------------------------------------------------------------
\* Specification SpecThreads: two threads query the navigator of one record
\* ------------------------------------------------------------------------
\* Each thread runs one query, a statement of croniter() and of the query at
\* a time: the test of line 216, the creation of line 217, set_current of
\* line 218, the load of line 219, and the get_next or get_prev of the
\* query (taken as one step: its result and the cursor's move).  sync is
\* "none" for the code as it is; "mutex" holds a lock from the test to the
\* read, and "own" gives each thread a cursor of its own, the two remedies
\* of the concurrency section.

Threads == {1, 2}

ThreadArgs == {DateTime(LastDay * SecondsPerDay + o) : o \in {0, 1800, 46800}}
ThreadCrons == {"@daily", "0 * * * *", "*/15 * * * *", ""}

ThreadStart(op, arg) ==
    [op |-> op, arg |-> arg, pc |-> "check", phase |-> 1, seedv |-> arg,
     ref |-> None, mine |-> None, disturbed |-> FALSE, raised |-> "", ret |-> arg]

ThreadsInit ==
    /\ conc \in [sync : {"none", "mutex", "own"},
                 cron : ThreadCrons,
                 cache : {[slot \in 0..2 |-> None]},
                 heap : {[id \in Threads |-> None]},
                 lock : {0},
                 th : {[i \in Threads |-> ThreadStart(q[i].op, q[i].arg)] :
                         q \in [Threads -> [op : {"next", "prev", "floor"}, arg : ThreadArgs]]}]
    /\ raw = None /\ built = None /\ pby = None
    /\ ucall = UnitIdle /\ ures = None
    /\ self = None /\ last = None /\ depth = 0

\* Where thread i finds self._croniter
Slot(i) == IF conc.sync = "own" THEN i ELSE 0

\* The cursor thread j has set and not yet read
Pending(j) ==
    IF conc.th[j].pc = "ret" THEN conc.th[j].mine
    ELSE IF conc.th[j].pc = "read" THEN conc.th[j].ref
    ELSE None

\* The threads after thread i has taken a step to t that wrote cursor x:
\* the other thread is disturbed when x is the cursor it has set and not read
Stepped(i, t, x) ==
    [j \in Threads |->
        IF j = i THEN t
        ELSE IF x # None /\ Pending(j) = x
        THEN [conc.th[j] EXCEPT !.disturbed = TRUE]
        ELSE conc.th[j]]

Frozen == UNCHANGED <<raw, built, pby, ucall, ures, self, last, depth>>

\* if self._croniter is None
Check(i) ==
    /\ conc.th[i].pc = "check"
    /\ conc.sync = "mutex" => conc.lock = 0
    /\ conc' = [conc EXCEPT
                  !.lock = IF conc.sync = "mutex" THEN i ELSE 0,
                  !.th[i].pc = IF conc.cache[Slot(i)] = None THEN "create" ELSE "seed"]
    /\ Frozen

\* self._croniter = croniter(self.normalized_cron())
Create(i) ==
    /\ conc.th[i].pc = "create"
    /\ \E now \in {Min(Instants), Max(Instants)} :
          LET s == [cron |-> conc.cron, _croniter |-> None]
              c == NewCursor(s, normalized_cron(conc.cron, now), now)
          IN  IF c.raised # ""
              THEN conc' = [conc EXCEPT !.lock = 0,
                                        !.th[i].pc = "done",
                                        !.th[i].raised = c.raised]
              ELSE conc' = [conc EXCEPT
                              !.heap[i] = c.ret,
                              !.cache[Slot(i)] = Some(i),
                              !.th = [j \in Threads |->
                                        IF j = i THEN [conc.th[i] EXCEPT !.pc = "seed"]
                                        ELSE IF conc.th[j].pc = "ret" /\ Slot(j) = Slot(i)
                                        THEN [conc.th[j] EXCEPT !.disturbed = TRUE]
                                        ELSE conc.th[j]]]
    /\ Frozen

\* self._croniter.set_current(to_datetime(value))
Seed(i) ==
    /\ conc.th[i].pc = "seed"
    /\ LET x == conc.cache[Slot(i)]
       IN  conc' = [conc EXCEPT
                      !.heap[Get(x)] = Some(SeedStep(Get(conc.heap[Get(x)]), conc.th[i].seedv)),
                      !.th = Stepped(i, [conc.th[i] EXCEPT !.pc = "ret", !.mine = x], x)]
    /\ Frozen

\* return self._croniter
Load(i) ==
    /\ conc.th[i].pc = "ret"
    /\ conc' = [conc EXCEPT !.th[i].pc = "read", !.th[i].ref = conc.cache[Slot(i)]]
    /\ Frozen

\* preserve_time_like_kind(value, cursor.get_next() or cursor.get_prev());
\* cron_floor goes on to self.croniter() of what its cron_next returned
Read(i) ==
    /\ conc.th[i].pc = "read"
    /\ LET t == conc.th[i]
           x == t.ref
           forward == t.op = "next" \/ (t.op = "floor" /\ t.phase = 1)
           g == IF forward THEN get_next(Get(conc.heap[Get(x)]))
                ELSE get_prev(Get(conc.heap[Get(x)]))
           v == preserve_time_like_kind(t.arg, g.ret)
           after == IF t.op = "floor" /\ t.phase = 1
                    THEN [t EXCEPT !.pc = "check", !.phase = 2, !.seedv = v]
                    ELSE [t EXCEPT !.pc = "done", !.ret = v]
       IN  conc' = [conc EXCEPT !.heap[Get(x)] = Some(g.cursor),
                                !.lock = 0,
                                !.th = Stepped(i, after, x)]
    /\ Frozen

ThreadsNext == \E i \in Threads : Check(i) \/ Create(i) \/ Seed(i) \/ Load(i) \/ Read(i)

SpecThreads == ThreadsInit /\ [][ThreadsNext]_vars

\* What the query of thread i returns or raises when it runs alone
Solo(i) ==
    LET fresh == [cron |-> conc.cron, _croniter |-> None]
        t == conc.th[i]
    IN  CASE t.op = "next" -> cron_next(fresh, t.arg, Min(Instants))
          [] t.op = "prev" -> cron_prev(fresh, t.arg, Min(Instants))
          [] t.op = "floor" -> cron_floor(fresh, t.arg, Min(Instants))

Finished(i) == conc.th[i].pc = "done"
AsAlone(i) == conc.th[i].raised = Solo(i).raised /\ conc.th[i].ret = Solo(i).ret

\* C10: without synchronization a query can return what it does not return
\* when run alone, and only when the other thread wrote the cursor between
\* this query's set_current and its read; with the pair under a mutex, or
\* with a cursor per caller, every query returns what it returns alone.
C10_OnlyWhenDisturbed ==
    \A i \in Threads :
        Finished(i) =>
            /\ conc.sync \in {"mutex", "own"} => AsAlone(i)
            /\ (conc.sync = "none" /\ ~conc.th[i].disturbed) => AsAlone(i)

\* a query that returned the result of the other caller's timestamp
C10_Witness ==
    /\ conc.sync = "none"
    /\ Finished(1) /\ Finished(2)
    /\ conc.th[1].op = "next" /\ conc.th[2].op = "next"
    /\ conc.th[1].arg # conc.th[2].arg
    /\ ~AsAlone(1)
    /\ conc.th[1].ret = Solo(2).ret

====
